---- MODULE Spec2Model ----
(***************************************************************************)
(* The diff-anchored review pipeline of src/src/main.ts: main fetches the  *)
(* pull request and its diff, analyzeCode asks the language model about    *)
(* every hunk and turns the answers into review comments (getAIResponse,   *)
(* createComment), and createReviewComment delivers the comments to the    *)
(* host in batches, with retries and pacing delays.                        *)
(***************************************************************************)
EXTENDS Integers, Sequences, FiniteSets, TLC

(***************************************************************************)
(* Bounds of the model and constants of the program.                       *)
(***************************************************************************)
\* largest BATCH_SIZE input the delivery runs are started with
MaxBatchSize == 5
\* longest comment list createReviewComment is started with on its own
MaxComments == 13
\* `let retries = 3`
RetryBudget == 3

(***************************************************************************)
(* JavaScript values.  Every value is a record whose field t is its type;  *)
(* a string is the sequence of its characters.                             *)
(***************************************************************************)
Undefined == [t |-> "undefined"]
Null == [t |-> "null"]
NaN == [t |-> "nan"]
Num(n) == [t |-> "num", v |-> n]
Str(s) == [t |-> "str", v |-> s]
Arr(s) == [t |-> "arr", v |-> s]
\* the object a response document parses to; an absent member reads as undefined
ReviewsObj(r) == [t |-> "obj", reviews |-> r]
\* one element of the reviews array
Review(l, c) == [t |-> "obj", lineNumber |-> l, reviewComment |-> c]

Digits == {"0", "1", "2", "3", "4", "5", "6", "7", "8", "9"}

DigitValue(c) ==
    CASE c = "0" -> 0 [] c = "1" -> 1 [] c = "2" -> 2 [] c = "3" -> 3
      [] c = "4" -> 4 [] c = "5" -> 5 [] c = "6" -> 6 [] c = "7" -> 7
      [] c = "8" -> 8 [] c = "9" -> 9

RECURSIVE DecimalValue(_)
DecimalValue(s) ==
    IF s = <<>> THEN 0
    ELSE 10 * DecimalValue(SubSeq(s, 1, Len(s) - 1)) + DigitValue(s[Len(s)])

RECURSIVE TrimLeft(_)
TrimLeft(s) ==
    IF s # <<>> /\ Head(s) = " " THEN TrimLeft(Tail(s)) ELSE s

RECURSIVE TrimRight(_)
TrimRight(s) ==
    IF s # <<>> /\ s[Len(s)] = " " THEN TrimRight(SubSeq(s, 1, Len(s) - 1)) ELSE s

\* String.prototype.trim
Trim(s) == TrimRight(TrimLeft(s))

\* Number(string), for strings of decimal digits, blanks and the letter "z":
\* blanks around the numeral are ignored, the empty string is 0, anything
\* that is not a numeral is NaN.
StringToNumber(s) ==
    LET u == Trim(s)
    IN  IF u = <<>> THEN Num(0)
        ELSE IF \A k \in 1..Len(u) : u[k] \in Digits THEN Num(DecimalValue(u))
        ELSE NaN

\* Number(x)
RECURSIVE ToNumber(_)
ToNumber(x) ==
    CASE x.t = "undefined" -> NaN
      [] x.t = "null" -> Num(0)
      [] x.t = "num" -> x
      [] x.t = "nan" -> NaN
      [] x.t = "str" -> StringToNumber(x.v)
      [] x.t = "obj" -> NaN
      [] x.t = "arr" ->
            IF Len(x.v) = 0 THEN Num(0)
            ELSE IF Len(x.v) > 1 THEN NaN
            ELSE IF x.v[1].t \in {"null", "undefined"} THEN Num(0)
            ELSE ToNumber(x.v[1])

\* the truthiness `if (x)` tests
Truthy(x) ==
    CASE x.t = "undefined" -> FALSE
      [] x.t = "null" -> FALSE
      [] x.t = "nan" -> FALSE
      [] x.t = "num" -> x.v # 0
      [] x.t = "str" -> x.v # <<>>
      [] x.t = "obj" -> TRUE
      [] x.t = "arr" -> TRUE

\* x.name; reading a member of null or undefined is a TypeError, which the
\* callers test with CanRead first
CanRead(x) == x.t \notin {"null", "undefined"}

Member(x, name) ==
    IF x.t = "obj" /\ name \in DOMAIN x THEN x[name] ELSE Undefined

\* Array.prototype.slice(start, end) on integers 0 <= start <= end
Slice(s, start, end) ==
    SubSeq(s, start + 1, IF end < Len(s) THEN end ELSE Len(s))

(***************************************************************************)
(* The parsed diff: files, hunks (chunks) and lines (changes) as the diff  *)
(* tokenizer hands them over.  An added or deleted line carries ln, a      *)
(* context line carries ln1 and ln2; 0 stands for a number that is not     *)
(* set.  A path of "" stands for a file without a target path.             *)
(***************************************************************************)
Add(n) == [type |-> "add", ln |-> n, ln1 |-> 0, ln2 |-> 0]
Del(n) == [type |-> "del", ln |-> n, ln1 |-> 0, ln2 |-> 0]
Normal(old, new) == [type |-> "normal", ln |-> 0, ln1 |-> old, ln2 |-> new]

\* the numbers the diff tokenizer gives the lines of a hunk that starts at
\* oldLine in the old file and at newLine in the new one: a deleted line
\* carries its old number, an added line its new number, a context line both
RECURSIVE NumberLines(_, _, _)
NumberLines(kinds, oldLine, newLine) ==
    IF kinds = <<>> THEN <<>>
    ELSE CASE Head(kinds) = "add" ->
                <<Add(newLine)>> \o NumberLines(Tail(kinds), oldLine, newLine + 1)
           [] Head(kinds) = "del" ->
                <<Del(oldLine)>> \o NumberLines(Tail(kinds), oldLine + 1, newLine)
           [] OTHER ->
                <<Normal(oldLine, newLine)>>
                    \o NumberLines(Tail(kinds), oldLine + 1, newLine + 1)

\* the hunk "@@ -oldStart +newStart @@" with lines of the given kinds
ParseHunk(oldStart, newStart, kinds) ==
    [changes |-> NumberLines(kinds, oldStart, newStart)]

DevNull == "/dev/null"
NoPath == ""

\* the hunk of the example: added lines 10 and 12 around a context line
HunkExample == [changes |-> <<Add(10), Normal(10, 11), Add(12)>>]
\* line 3 replaced
HunkReplace == [changes |-> <<Normal(2, 2), Del(3), Add(3)>>]
HunkRemoved == [changes |-> <<Del(1), Del(2)>>]
HunkContext == [changes |-> <<Normal(1, 1), Add(2)>>]

FileA == [to |-> "a.ts", chunks |-> <<HunkExample, HunkReplace>>]
FileC == [to |-> "c.ts", chunks |-> <<HunkContext>>]
FileDoc == [to |-> "b.md", chunks |-> <<HunkContext>>]
FileDeleted == [to |-> DevNull, chunks |-> <<HunkRemoved>>]
FileNoPath == [to |-> NoPath, chunks |-> <<HunkContext>>]

\* what parseDiff can return for the diffs of the runs
ParsedDiffs ==
    { <<>>, <<FileA>>, <<FileC>>, <<FileDeleted, FileC>>, <<FileDoc, FileA>>,
      <<FileC, FileDoc>>, <<FileNoPath, FileC>>, <<FileC, FileDeleted, FileC>>,
      <<FileA, FileC>> }

\* the number by which a line is addressed: `c.ln ? c.ln : c.ln2`
Addressable(c) == IF c.ln # 0 THEN c.ln ELSE c.ln2

(***************************************************************************)
(* What the model call can produce: the call rejects, or it resolves with  *)
(* a message whose content is null or a text.  A text is the document it   *)
(* holds (nothing, something that is no JSON, or a JSON value) and whether *)
(* blanks surround it.                                                     *)
(***************************************************************************)
CallRejects == [t |-> "throw"]
NoContent == [t |-> "nocontent"]
Text(blank, doc) == [t |-> "text", blank |-> blank, doc |-> doc]

EmptyDoc == [k |-> "empty"]
Garbage == [k |-> "garbage"]
Json(v) == [k |-> "json", v |-> v]

EmptyObject == [t |-> "obj"]

Body(s) == Str(s)
UseAConstant == Body(<<"c">>)
X == Body(<<"x">>)

\* {"reviews":[{"lineNumber":"10",...},{"lineNumber":"99",...}]}
ExampleReviews ==
    Arr(<<Review(Str(<<"1", "0">>), UseAConstant), Review(Str(<<"9", "9">>), X)>>)

ReviewsValues ==
    { Undefined, Null, Num(0), Num(5), Str(<<>>), Str(<<"x">>), EmptyObject,
      Arr(<<>>),
      ExampleReviews,
      Arr(<<Review(Num(12), X)>>),
      Arr(<<Review(Str(<<" ", "2", " ">>), X), Review(Num(3), UseAConstant)>>),
      Arr(<<Review(Undefined, X), Review(Str(<<"1", "2">>), UseAConstant)>>),
      Arr(<<Review(Str(<<"1", "0">>), Undefined), Review(Num(12), X)>>),
      Arr(<<Review(Str(<<"z">>), X)>>),
      Arr(<<Null, Review(Num(12), X)>>) }

JsonDocs ==
    { Json(Null), Json(Str(<<"z">>)), Json(EmptyObject) }
      \cup { Json(ReviewsObj(r)) : r \in ReviewsValues \ {Undefined} }

ModelOutputs ==
    { CallRejects, NoContent, Text(FALSE, EmptyDoc), Text(TRUE, EmptyDoc),
      Text(FALSE, Garbage), Text(TRUE, Garbage) }
      \cup { Text(FALSE, d) : d \in JsonDocs }
      \cup { Text(TRUE, Json(ReviewsObj(ExampleReviews))) }

(***************************************************************************)
(* getAIResponse (main.ts 123-158).  A result is [ok, v]: ok is FALSE when *)
(* the step throws.                                                        *)
(***************************************************************************)
Ok(v) == [ok |-> TRUE, v |-> v]
Throws == [ok |-> FALSE, v |-> Undefined]

\* String.prototype.trim on the content
TrimContent(out) == [out EXCEPT !.blank = FALSE]

\* response.choices[0].message?.content?.trim() || "{}"
ResText(out) ==
    IF out.t = "nocontent" THEN Text(FALSE, Json(EmptyObject))
    ELSE LET trimmed == TrimContent(out)
         IN  IF trimmed.doc.k = "empty" /\ ~trimmed.blank
             THEN Text(FALSE, Json(EmptyObject))
             ELSE trimmed

\* JSON.parse(res): blanks around the value are allowed, no value is not
JSONParse(text) == IF text.doc.k = "json" THEN Ok(text.doc.v) ELSE Throws

\* JSON.parse(res).reviews
ReadReviews(text) ==
    LET parsed == JSONParse(text)
    IN  IF ~parsed.ok THEN Throws
        ELSE IF ~CanRead(parsed.v) THEN Throws
        ELSE Ok(Member(parsed.v, "reviews"))

\* the try block of getAIResponse, without its catch
GetAIResponseTry(out) ==
    IF out.t = "throw" THEN Throws ELSE ReadReviews(ResText(out))

\* getAIResponse with a catch that lets the error through
GetAIResponseWithoutCatch(out) == GetAIResponseTry(out)

getAIResponse(out) ==
    LET r == GetAIResponseTry(out)
    IN  IF r.ok THEN r ELSE Ok(Null)

(***************************************************************************)
(* createComment (main.ts 160-178).                                        *)
(***************************************************************************)
Comment(file, aiResponse) ==
    [body |-> Member(aiResponse, "reviewComment"),
     path |-> file.to,
     line |-> ToNumber(Member(aiResponse, "lineNumber"))]

\* a flatMap that hands the candidates over last to first
RECURSIVE FlatMapCommentsReversed(_, _)
FlatMapCommentsReversed(file, rs) ==
    IF rs = <<>> THEN <<>>
    ELSE FlatMapCommentsReversed(file, Tail(rs))
            \o (IF file.to = NoPath THEN <<>> ELSE <<Comment(file, Head(rs))>>)

RECURSIVE FlatMapComments(_, _)
FlatMapComments(file, rs) ==
    IF rs = <<>> THEN <<>>
    ELSE (IF file.to = NoPath THEN <<>> ELSE <<Comment(file, Head(rs))>>)
            \o FlatMapComments(file, Tail(rs))

createComment(file, chunk, aiResponses) ==
    IF aiResponses.t # "arr" THEN Throws
    ELSE IF file.to # NoPath /\ \E k \in 1..Len(aiResponses.v) : ~CanRead(aiResponses.v[k])
    THEN Throws
    ELSE Ok(FlatMapComments(file, aiResponses.v))

(***************************************************************************)
(* main's configuration and the filter of the parsed diff (main.ts         *)
(* 258-267).  minimatch is given by the paths each pattern of the runs     *)
(* matches.                                                                *)
(***************************************************************************)
Minimatch(path, pattern) ==
    CASE pattern = "" -> path = ""
      [] pattern = "*.ts" -> path \in {"a.ts", "c.ts"}
      [] pattern = "*.md" -> path = "b.md"
      [] pattern = "/dev/null" -> path = DevNull

\* core.getInput("include").split(",").map(trim), for the inputs of the runs
IncludeInputs == { <<"">>, <<"*.ts">>, <<"*.ts", "/dev/null">>, <<"", "*.ts">> }

Matches(file, patterns) ==
    \E k \in 1..Len(patterns) : Minimatch(file.to, patterns[k])

\* a filter that lets every file through
FilterDiffKeepsAll(files, patterns) == files

\* parsedDiff.filter(file => includePatterns.some(...))
FilterDiff(files, patterns) ==
    SelectSeq(files, LAMBDA file : Matches(file, patterns))

EventActions == {"opened", "synchronize", "closed"}

(***************************************************************************)
(* The order in which analyzeCode visits the hunks (main.ts 69-71): file   *)
(* by file, skipping deleted files, chunk by chunk; each entry is          *)
(* <<file index, chunk index>>.                                            *)
(***************************************************************************)
\* the chunks of every file are visited, deleted or not
FileHunksOfEveryFile(files, f) == [c \in 1..Len(files[f].chunks) |-> <<f, c>>]

FileHunks(files, f) ==
    IF files[f].to = DevNull THEN <<>>
    ELSE [c \in 1..Len(files[f].chunks) |-> <<f, c>>]

RECURSIVE HunksFrom(_, _)
HunksFrom(files, f) ==
    IF f > Len(files) THEN <<>>
    ELSE FileHunks(files, f) \o HunksFrom(files, f + 1)

HunkOrder(files) == HunksFrom(files, 1)

(***************************************************************************)
(* The state of a run.                                                     *)
(***************************************************************************)
VARIABLES
    pc,           \* where main is: the call it awaits, or how it ended
    eventAction,  \* eventData.action
    include,      \* includePatterns
    batchSize,    \* BATCH_SIZE
    diff,         \* the diff main holds, and the files parseDiff makes of it
    files,        \* filteredDiff, the argument of analyzeCode
    h,            \* the place in HunkOrder(files) of the hunk analyzeCode is at
    output,       \* what the model call of this hunk produced
    aiResponse,   \* what getAIResponse returned for this hunk
    comments,     \* the accumulator of analyzeCode, then the argument of createReviewComment
    origin,       \* for every comment, the <<file, chunk>> it was derived from
    prompted,     \* the <<file, chunk>> of every model call made, in order
    log,          \* what analyzeCode and createComment wrote to the console
    i,            \* the loop index of createReviewComment
    batch,        \* comments.slice(i, i + BATCH_SIZE)
    retries,      \* attempts left for the batch
    attempts,     \* createReview calls made for the batch
    retryWaits,   \* retry delays waited for the batch
    batchWaits,   \* inter-batch delays waited in the run
    batches,      \* the batches formed so far, in order
    submits,      \* createReview calls made in the run
    request,      \* the comments of the latest createReview request
    inflight,     \* the calls and timers started and not yet settled
    lastEvent     \* the awaited operation that completed last, and how

configVars == <<eventAction, include, batchSize>>
analysisVars == <<diff, files, h, output, aiResponse, comments, origin, prompted, log>>
deliveryVars ==
    <<i, batch, retries, attempts, retryWaits, batchWaits, batches, submits, request>>
vars == <<pc, configVars, analysisVars, deliveryVars, inflight, lastEvent>>

\* let diff: not assigned yet, null or empty, or a text parseDiff reads
NotFetched == [state |-> "none", files |-> <<>>]
NoDiff == [state |-> "empty", files |-> <<>>]
DiffOf(parsedDiff) == [state |-> "text", files |-> parsedDiff]

\* the places where main waits for a call or a timer
AwaitPoints ==
    {"await_getPRDetails", "await_getDiff", "await_compareCommits", "await_model",
     "await_createReview", "await_retry_delay", "await_batch_delay"}

\* arriving at p starts the call or the timer awaited there
Issued(p) == IF p \in AwaitPoints THEN <<p>> ELSE <<>>

\* a call or a timer that is started and never awaited
NeverSettled(ops, p) == ops

\* await returns: the call or the timer awaited at p is over
RECURSIVE Settled(_, _)
Settled(ops, p) ==
    IF ops = <<>> THEN <<>>
    ELSE IF Head(ops) = p THEN Tail(ops)
    ELSE <<Head(ops)>> \o Settled(Tail(ops), p)

\* main goes from one await to the next
Awaited == inflight' = Settled(inflight, pc) \o Issued(pc')

NoOutput == [t |-> "none"]

NothingDelivered ==
    /\ i = 0
    /\ batch = <<>>
    /\ retries = 0
    /\ attempts = 0
    /\ retryWaits = 0
    /\ batchWaits = 0
    /\ batches = <<>>
    /\ submits = 0
    /\ request = <<>>

\* main has called getPRDetails
Init ==
    /\ pc = "await_getPRDetails"
    /\ eventAction \in EventActions
    /\ include \in IncludeInputs
    /\ batchSize \in 1..MaxBatchSize
    /\ diff = NotFetched
    /\ files = <<>>
    /\ h = 0
    /\ output = NoOutput
    /\ aiResponse = Undefined
    /\ comments = <<>>
    /\ origin = <<>>
    /\ prompted = <<>>
    /\ log = <<>>
    /\ NothingDelivered
    /\ inflight = Issued(pc)
    /\ lastEvent = "none"

(***************************************************************************)
(* main (main.ts 214-289) up to analyzeCode.                               *)
(***************************************************************************)
\* a catch that logs the error and lets main return
ErrorSwallowed == pc' = "done"

\* the catch of main: process.exit(1)
Exit1 == pc' = "exit1"

\* an event that is not "opened" is taken for "opened"
EveryEventFetchesDiff(action) ==
    IF action = "synchronize" THEN "await_compareCommits" ELSE "await_getDiff"

\* where main goes by eventData.action (main.ts 222-246): the unsupported
\* event is logged and main returns
AfterGetPRDetails(action) ==
    CASE action = "opened" -> "await_getDiff"
      [] action = "synchronize" -> "await_compareCommits"
      [] OTHER -> "done"

GetPRDetailsResolves ==
    /\ pc = "await_getPRDetails"
    /\ pc' = AfterGetPRDetails(eventAction)
    /\ Awaited
    /\ lastEvent' = "getPRDetails"
    /\ UNCHANGED <<configVars, analysisVars, deliveryVars>>

\* the event payload cannot be read or parsed, or pulls.get rejects
GetPRDetailsRejects ==
    /\ pc = "await_getPRDetails"
    /\ Exit1
    /\ Awaited
    /\ lastEvent' = "getPRDetails_failed"
    /\ UNCHANGED <<configVars, analysisVars, deliveryVars>>

\* createReviewComment is called whatever analyzeCode returned
AfterAnalyzeCodeUnguarded(cs) == "createReviewComment"

\* if (comments.length > 0) createReviewComment(...) (main.ts 277-284)
AfterAnalyzeCode(cs) == IF Len(cs) > 0 THEN "createReviewComment" ELSE "done"

\* analyzeCode is entered with the filtered diff and calls the model for
\* its first hunk, or returns at once with no comments
EnterAnalyzeCode(filteredDiff) ==
    /\ files' = filteredDiff
    /\ IF HunkOrder(filteredDiff) = <<>>
       THEN h' = 0 /\ pc' = AfterAnalyzeCode(<<>>) /\ prompted' = prompted
       ELSE /\ h' = 1
            /\ pc' = "await_model"
            /\ prompted' = Append(prompted, HunkOrder(filteredDiff)[1])
    /\ UNCHANGED <<output, aiResponse, comments, origin, log>>

\* the diff arrived: present is FALSE when it is null or empty
DiffResolves(present, parsedDiff) ==
    /\ pc \in {"await_getDiff", "await_compareCommits"}
    /\ lastEvent' = "diff"
    /\ IF ~present
       THEN /\ pc' = "done"
            /\ diff' = NoDiff
            /\ UNCHANGED <<files, h, output, aiResponse, comments, origin, prompted, log>>
       ELSE /\ diff' = DiffOf(parsedDiff)
            /\ EnterAnalyzeCode(FilterDiff(parsedDiff, include))
    /\ Awaited
    /\ UNCHANGED <<configVars, deliveryVars>>

DiffRejects ==
    /\ pc \in {"await_getDiff", "await_compareCommits"}
    /\ Exit1
    /\ Awaited
    /\ lastEvent' = "diff_failed"
    /\ UNCHANGED <<configVars, analysisVars, deliveryVars>>

(***************************************************************************)
(* analyzeCode (main.ts 62-88), one hunk at a time.                        *)
(***************************************************************************)
\* the model call of the hunk is over and getAIResponse returns
GetAIResponseReturns(out) ==
    /\ pc = "await_model"
    /\ LET r == getAIResponse(out)
       IN  IF r.ok
           THEN pc' = "analyzeCode" /\ aiResponse' = r.v
           ELSE Exit1 /\ aiResponse' = Undefined
    /\ output' = out
    /\ Awaited
    /\ lastEvent' = "model"
    /\ UNCHANGED <<configVars, diff, files, h, comments, origin, prompted, log,
                    deliveryVars>>

\* what the hunk adds to the accumulator (main.ts 79-84)
NewComments(file, chunk, response) ==
    IF Truthy(response) THEN createComment(file, chunk, response) ELSE Ok(<<>>)

\* an assignment in the place of the push
PushReplaces(cs, new) == new

\* comments.push(...newComments) (main.ts 82)
Push(cs, new) == cs \o new

\* the loops of analyzeCode end after the hunk at k
NoMoreHunks(fs, k) == FALSE

\* the for loops of analyzeCode have a hunk after the one at k (main.ts 69-71)
MoreHunks(fs, k) == k < Len(HunkOrder(fs))

\* console.log of the prompt, which names the file, and of the response
\* (main.ts 75-77)
PromptAndResponseLog(file, pos) ==
    << [kind |-> "prompt", path |-> file.to, chunk |-> pos[2]],
       [kind |-> "response"] >>

\* analyzeCode goes on after getAIResponse: the prompt and the response are
\* logged, the hunk's comments are pushed, and the next hunk's model call is
\* made or the comments are returned to main
AnalyzeCodeResumes ==
    /\ pc = "analyzeCode"
    /\ LET pos == HunkOrder(files)[h]
           file == files[pos[1]]
           chunk == file.chunks[pos[2]]
           new == NewComments(file, chunk, aiResponse)
       IN  /\ log' = log \o PromptAndResponseLog(file, pos)
           /\ IF ~new.ok
              THEN Exit1 /\ UNCHANGED <<comments, origin, h, prompted>>
              ELSE /\ comments' = Push(comments, new.v)
                   /\ origin' = Push(origin, [k \in 1..Len(new.v) |-> pos])
                   /\ IF MoreHunks(files, h)
                      THEN /\ h' = h + 1
                           /\ pc' = "await_model"
                           /\ prompted' = Append(prompted, HunkOrder(files)[h + 1])
                      ELSE /\ h' = h
                           /\ pc' = AfterAnalyzeCode(comments')
                           /\ prompted' = prompted
    /\ output' = NoOutput
    /\ aiResponse' = Undefined
    /\ Awaited
    /\ UNCHANGED <<configVars, diff, files, deliveryVars, lastEvent>>

(***************************************************************************)
(* createReviewComment (main.ts 180-212).                                  *)
(***************************************************************************)
\* a slice that takes the element at the end index too
BatchAtInclusiveEnd(cs, j, size) == Slice(cs, j, j + size + 1)

\* comments.slice(i, i + BATCH_SIZE)
BatchAt(cs, j, size) == Slice(cs, j, j + size)

\* a catch block that does not count the failure
RetriesNotCounted(r) == r

\* retries -= 1
RetriesAfterFailure(r) == r - 1

\* a request that carries the first comment of the batch alone
RequestFirstComment(b) == IF b = <<>> THEN <<>> ELSE <<Head(b)>>

\* comments: batch, in the createReview request (main.ts 191-197)
RequestComments(b) == b

\* the body of the for loop is entered for the batch at j, and the first
\* createReview call for it is made
StartBatch(j) ==
    /\ i' = j
    /\ batch' = BatchAt(comments, j, batchSize)
    /\ retries' = RetryBudget
    /\ attempts' = 1
    /\ retryWaits' = 0
    /\ batches' = Append(batches, batch')
    /\ submits' = submits + 1
    /\ request' = RequestComments(batch')
    /\ pc' = "await_createReview"

\* a loop whose index is not advanced
LoopHeadWithoutAdvance(j) ==
    IF i < Len(comments)
    THEN StartBatch(i)
    ELSE /\ i' = i
         /\ pc' = "done"
         /\ UNCHANGED <<batch, retries, attempts, retryWaits, batches, submits, request>>

\* the test of the for loop with the index at j: the next batch, or return
LoopHead(j) ==
    IF j < Len(comments)
    THEN StartBatch(j)
    ELSE /\ i' = j
         /\ pc' = "done"
         /\ UNCHANGED <<batch, retries, attempts, retryWaits, batches, submits, request>>

\* the next batch is started without the delay
AfterBatchWithoutDelay(r) == LoopHead(i + batchSize)

\* the delay is waited only when another batch follows
AfterBatchNoTrailingDelay(r) ==
    IF i + batchSize < Len(comments)
    THEN /\ pc' = "await_batch_delay"
         /\ retries' = r
         /\ UNCHANGED <<i, batch, attempts, retryWaits, batches, submits, request>>
    ELSE /\ pc' = "done"
         /\ retries' = r
         /\ UNCHANGED <<i, batch, attempts, retryWaits, batches, submits, request>>

\* a try block without the break: after a success the while loop goes on
\* and the batch is sent again
AfterBatchMissingBreak(r) ==
    IF r > 0
    THEN /\ pc' = "await_createReview"
         /\ retries' = r
         /\ attempts' = attempts + 1
         /\ submits' = submits + 1
         /\ UNCHANGED <<i, batch, retryWaits, batches, request>>
    ELSE /\ pc' = "await_batch_delay"
         /\ retries' = r
         /\ UNCHANGED <<i, batch, attempts, retryWaits, batches, submits, request>>

\* the while loop is left with r retries: the delay before the next batch
\* is started (main.ts 210)
AfterBatch(r) ==
    /\ pc' = "await_batch_delay"
    /\ retries' = r
    /\ UNCHANGED <<i, batch, attempts, retryWaits, batches, submits, request>>

EnterCreateReviewComment ==
    /\ pc = "createReviewComment"
    /\ LoopHead(0)
    /\ Awaited
    /\ UNCHANGED <<configVars, analysisVars, batchWaits, lastEvent>>

\* createReview succeeded: break
CreateReviewResolves ==
    /\ pc = "await_createReview"
    /\ AfterBatch(retries)
    /\ Awaited
    /\ lastEvent' = "createReview_ok"
    /\ UNCHANGED <<configVars, analysisVars, batchWaits>>

\* the last failure is thrown on to main instead of dropping the batch
AfterFailureRethrows(r) ==
    /\ pc' = IF r = 0 THEN "exit1" ELSE "await_retry_delay"
    /\ retries' = r
    /\ UNCHANGED <<i, batch, attempts, retryWaits, batches, submits, request>>

\* the retry delay is waited after the last failure too
AfterFailureAlwaysWaits(r) ==
    /\ pc' = "await_retry_delay"
    /\ retries' = r
    /\ UNCHANGED <<i, batch, attempts, retryWaits, batches, submits, request>>

\* what follows a failed createReview that leaves r retries (main.ts 203-207)
AfterFailure(r) ==
    IF r = 0
    THEN AfterBatch(r)
    ELSE /\ pc' = "await_retry_delay"
         /\ retries' = r
         /\ UNCHANGED <<i, batch, attempts, retryWaits, batches, submits, request>>

\* createReview failed: the catch block
CreateReviewRejects ==
    /\ pc = "await_createReview"
    /\ AfterFailure(RetriesAfterFailure(retries))
    /\ Awaited
    /\ lastEvent' = "createReview_failed"
    /\ UNCHANGED <<configVars, analysisVars, batchWaits>>

\* the delay before a retry is over: the while loop tests retries again
RetryDelayElapsed ==
    /\ pc = "await_retry_delay"
    /\ retryWaits' = retryWaits + 1
    /\ IF retries > 0
       THEN /\ pc' = "await_createReview"
            /\ attempts' = attempts + 1
            /\ submits' = submits + 1
            /\ request' = RequestComments(batch)
       ELSE /\ pc' = "await_batch_delay"
            /\ UNCHANGED <<attempts, submits, request>>
    /\ Awaited
    /\ lastEvent' = "retry_delay"
    /\ UNCHANGED <<configVars, analysisVars, i, batch, retries, batchWaits, batches>>

\* the delay after the batch is over: i += BATCH_SIZE
BatchDelayElapsed ==
    /\ pc = "await_batch_delay"
    /\ batchWaits' = batchWaits + 1
    /\ LoopHead(i + batchSize)
    /\ Awaited
    /\ lastEvent' = "batch_delay"
    /\ UNCHANGED <<configVars, analysisVars>>

Deliver ==
    \/ EnterCreateReviewComment
    \/ CreateReviewResolves
    \/ CreateReviewRejects
    \/ RetryDelayElapsed
    \/ BatchDelayElapsed

(***************************************************************************)
(* A run of main.                                                          *)
(***************************************************************************)
Next ==
    \/ GetPRDetailsResolves
    \/ GetPRDetailsRejects
    \/ \E present \in BOOLEAN, parsedDiff \in ParsedDiffs : DiffResolves(present, parsedDiff)
    \/ DiffRejects
    \/ \E out \in ModelOutputs : GetAIResponseReturns(out)
    \/ AnalyzeCodeResumes
    \/ Deliver

Spec == Init /\ [][Next]_vars

(***************************************************************************)
(* createReviewComment on its own: called with a list of 1..MaxComments    *)
(* comments, told apart by their lines, and a batch size of                *)
(* 1..MaxBatchSize.                                                        *)
(***************************************************************************)
CommentList(m) == [k \in 1..m |-> [body |-> X, path |-> "a.ts", line |-> Num(k)]]

DeliveryInit ==
    /\ pc = "createReviewComment"
    /\ eventAction = "opened"
    /\ include = <<"*.ts">>
    /\ batchSize \in 1..MaxBatchSize
    /\ diff = NotFetched
    /\ files = <<>>
    /\ h = 0
    /\ output = NoOutput
    /\ aiResponse = Undefined
    /\ \E m \in 1..MaxComments : comments = CommentList(m)
    /\ origin = <<>>
    /\ prompted = <<>>
    /\ log = <<>>
    /\ NothingDelivered
    /\ inflight = Issued(pc)
    /\ lastEvent = "none"

DeliveryNext == Deliver

DeliverySpec == DeliveryInit /\ [][DeliveryNext]_vars

\* every call and every delay of createReviewComment comes to an end
FairDeliverySpec == DeliverySpec /\ WF_vars(DeliveryNext)

(***************************************************************************)
(* What the properties below speak of.                                     *)
(***************************************************************************)
\* the hunk analyzeCode is at, and its file
HunkFile == files[HunkOrder(files)[h][1]]
HunkAt == HunkFile.chunks[HunkOrder(files)[h][2]]

\* the hunk the k-th comment was derived from
SourceHunk(k) == files[origin[k][1]].chunks[origin[k][2]]

\* n is the addressable number of a line of the hunk
InHunk(chunk, n) ==
    /\ n.t = "num"
    /\ \E k \in 1..Len(chunk.changes) : n.v = Addressable(chunk.changes[k])

\* an element that carries a line-number reference and a comment string
WellFormed(e) ==
    /\ e.t = "obj"
    /\ Member(e, "lineNumber").t \in {"num", "str"}
    /\ Member(e, "reviewComment").t = "str"

\* the comments the anchoring contract asks for: one for every well-formed
\* element whose coerced line is a line of the hunk, in order
RECURSIVE AnchoredComments(_, _, _)
AnchoredComments(file, chunk, rs) ==
    IF rs = <<>> THEN <<>>
    ELSE LET e == Head(rs)
         IN  (IF WellFormed(e) /\ InHunk(chunk, ToNumber(Member(e, "lineNumber")))
              THEN <<[body |-> Member(e, "reviewComment"),
                      path |-> file.to,
                      line |-> ToNumber(Member(e, "lineNumber"))]>>
              ELSE <<>>)
                \o AnchoredComments(file, chunk, Tail(rs))

\* C1: every comment of the accumulator (and so of every review request)
\* has the addressable number of a line of the hunk it was derived from
AnchoringSoundness ==
    \A k \in 1..Len(comments) : InHunk(SourceHunk(k), comments[k].line)

\* C2: a list of candidates yields exactly the comments of the candidates
\* whose coerced line is a line of the hunk, with the file's path, the
\* coerced line and the candidate's body
AnchoringCompleteness ==
    [][(/\ pc = "analyzeCode"
        /\ aiResponse.t = "arr"
        /\ \A k \in 1..Len(aiResponse.v) : WellFormed(aiResponse.v[k])
        /\ HunkFile.to # NoPath)
       => comments' = comments \o AnchoredComments(HunkFile, HunkAt, aiResponse.v)]_vars

\* a model output that is empty, blank or no JSON
Unparsable(out) == out.t = "text" /\ out.doc.k \in {"empty", "garbage"}

\* C3: an empty, blank or unparsable model output gives no candidates and
\* no comments, nothing is thrown by getAIResponse or analyzeCode, and
\* analyzeCode goes on to the next hunk
FailSoftValidation ==
    [][/\ (pc = "await_model" /\ Unparsable(output'))
            => (pc' = "analyzeCode" /\ aiResponse' \in {Null, Undefined})
       /\ (pc = "analyzeCode" /\ Unparsable(output))
            => /\ comments' = comments
               /\ pc' # "exit1"
               /\ h < Len(HunkOrder(files)) => (h' = h + 1 /\ pc' = "await_model")
               /\ h = Len(HunkOrder(files)) => pc' \in {"createReviewComment", "done"}]_vars

\* an unparsable output was answered with no candidates, and hunks remain
FailSoftReached ==
    /\ pc = "analyzeCode"
    /\ output = Text(FALSE, Garbage)
    /\ aiResponse = Null
    /\ comments # <<>>
    /\ h < Len(HunkOrder(files))

\* the output parses to an object whose reviews member is absent or no list
ReviewsNotAList(out) ==
    /\ out.t = "text"
    /\ out.doc.k = "json"
    /\ out.doc.v.t = "obj"
    /\ Member(out.doc.v, "reviews").t # "arr"

\* C4: when reviews is absent or not a list the hunk yields no comments,
\* nothing is thrown, and the run goes on
NonListReviewsIgnored ==
    [][(pc = "analyzeCode" /\ ReviewsNotAList(output))
        => (comments' = comments /\ pc' # "exit1")]_vars

\* C5: of a reviews list that holds malformed elements, exactly the
\* well-formed and anchorable elements become comments, in order
MalformedElementsDropped ==
    [][(/\ pc = "analyzeCode"
        /\ aiResponse.t = "arr"
        /\ \A k \in 1..Len(aiResponse.v) : aiResponse.v[k].t = "obj"
        /\ \E k \in 1..Len(aiResponse.v) : ~WellFormed(aiResponse.v[k])
        /\ \E k \in 1..Len(aiResponse.v) : WellFormed(aiResponse.v[k])
        /\ HunkFile.to # NoPath)
       => /\ pc' # "exit1"
          /\ comments' = comments \o AnchoredComments(HunkFile, HunkAt, aiResponse.v)]_vars

(***************************************************************************)
(* Delivery.                                                               *)
(***************************************************************************)
RECURSIVE Flatten(_)
Flatten(ss) == IF ss = <<>> THEN <<>> ELSE Head(ss) \o Flatten(Tail(ss))

CeilDiv(m, b) == (m + b - 1) \div b

\* C6: the batches are non-empty, of at most BATCH_SIZE comments, all but
\* the last of exactly BATCH_SIZE; taken together in order they are the
\* comments up to where the loop is, and, once createReviewComment has
\* returned, ceil(M/B) batches that make up the whole list
BatchPartition ==
    /\ \A k \in 1..Len(batches) :
          /\ Len(batches[k]) \in 1..batchSize
          /\ k < Len(batches) => Len(batches[k]) = batchSize
    /\ Len(Flatten(batches)) <= Len(comments)
    /\ Flatten(batches) = SubSeq(comments, 1, Len(Flatten(batches)))
    /\ pc = "done" =>
          /\ Len(batches) = CeilDiv(Len(comments), batchSize)
          /\ Flatten(batches) = comments

\* 13 comments went out in batches of 5
PartitionReached ==
    /\ pc = "done"
    /\ Len(comments) = 13
    /\ batchSize = 5
    /\ Len(batches) = 3
    /\ Len(batches[3]) = 3

\* C7: a batch is submitted at least once and at most 3 times; it is
\* submitted again exactly when the attempt before failed and fewer than 3
\* were made, and never after an attempt that succeeded
RetryBudgetKept ==
    /\ [](/\ attempts <= 3
          /\ batches # <<>> => attempts >= 1
          /\ pc = "await_retry_delay" => attempts < 3)
    /\ [][/\ (attempts' = attempts + 1 /\ batches' = batches)
                => (lastEvent = "createReview_failed" /\ attempts < 3)
          /\ (pc = "await_createReview" /\ lastEvent' = "createReview_failed"
                /\ attempts < 3)
                => pc' = "await_retry_delay"
          /\ pc = "await_retry_delay"
                => (pc' = "await_createReview" /\ attempts' = attempts + 1
                      /\ batches' = batches)
          /\ (pc = "await_createReview" /\ lastEvent' = "createReview_failed"
                /\ attempts = 3)
                => pc' = "await_batch_delay"
          /\ (pc = "await_createReview" /\ lastEvent' = "createReview_ok")
                => pc' = "await_batch_delay"
          /\ pc = "await_batch_delay"
                => (batches' # batches \/ pc' = "done")]_vars

\* the third attempt of a batch is under way
ThirdAttemptReached ==
    /\ pc = "await_createReview"
    /\ attempts = 3
    /\ lastEvent = "retry_delay"

\* C8: whatever becomes of the batch at k, all 3 attempts failing
\* included, the run does not abort and the batch after it, when there is
\* one, is attempted
ExhaustionIsolated ==
    /\ [](pc # "exit1")
    /\ \A k \in 0..MaxComments :
          (i = k /\ batches # <<>> /\ k + batchSize < Len(comments))
            ~> (i = k + batchSize /\ pc = "await_createReview" /\ attempts = 1)

\* a batch was dropped after 3 failed attempts and another batch remains
DroppedBatchReached ==
    /\ pc = "await_batch_delay"
    /\ lastEvent = "createReview_failed"
    /\ attempts = 3
    /\ retries = 0
    /\ i + batchSize < Len(comments)

\* C9: the first attempt of every batch but the first follows an
\* inter-batch delay, one for each earlier batch, whatever the retry delays
Pacing ==
    (pc = "await_createReview" /\ attempts = 1 /\ i > 0)
        => (lastEvent = "batch_delay" /\ batchWaits = Len(batches) - 1)

\* the first attempt of a later batch is under way
SecondBatchReached ==
    /\ pc = "await_createReview"
    /\ attempts = 1
    /\ i > 0
    /\ Len(batches) = 3

\* C10: when createReviewComment returns it has waited once after every
\* batch, the last one included; 13 comments in batches of 5 are batches of
\* 5, 5 and 3 and three waits
TrailingDelay ==
    /\ pc = "done" => (batchWaits = Len(batches) /\ lastEvent = "batch_delay")
    /\ pc = "await_batch_delay" => batchWaits = Len(batches) - 1
    /\ (pc = "done" /\ Len(comments) = 13 /\ batchSize = 5)
          => (/\ [k \in 1..Len(batches) |-> Len(batches[k])] = <<5, 5, 3>>
              /\ batchWaits = 3)

\* createReviewComment returned after three waits for 13 comments
TrailingDelayReached ==
    /\ pc = "done"
    /\ Len(comments) = 13
    /\ batchSize = 5
    /\ batchWaits = 3
    /\ lastEvent = "batch_delay"

(***************************************************************************)
(* The run as a whole.                                                     *)
(***************************************************************************)
\* main is in createReviewComment
Delivering ==
    pc \in {"createReviewComment", "await_createReview", "await_retry_delay",
            "await_batch_delay"}

\* C11: as long as the comment list is empty createReviewComment is not
\* called, no createReview request is made and no delay is waited; so a run
\* that derives no comment ends without any of them
ZeroCommentsNoSubmission ==
    comments = <<>>
        => /\ ~Delivering
           /\ batches = <<>>
           /\ request = <<>>
           /\ attempts = 0
           /\ retryWaits = 0
           /\ batchWaits = 0

\* every hunk of two or more was analysed and none gave a comment
ZeroCommentsReached ==
    /\ pc = "done"
    /\ comments = <<>>
    /\ h >= 2
    /\ h = Len(HunkOrder(files))

\* position p is not after position q: file first, then hunk
NotAfter(p, q) == p[1] < q[1] \/ (p[1] = q[1] /\ p[2] <= q[2])

\* the comments new are made of candidates of rs, in the order of rs
InCandidateOrder(new, rs) ==
    \E f \in [1..Len(new) -> 1..Len(rs)] :
        /\ \A a, b \in 1..Len(new) : a < b => f[a] < f[b]
        /\ \A a \in 1..Len(new) :
              /\ new[a].body = Member(rs[f[a]], "reviewComment")
              /\ new[a].line = ToNumber(Member(rs[f[a]], "lineNumber"))

\* C12: the comments are accumulated in derivation order (file, then hunk,
\* then candidate), the first attempts carry them in that order, batch after
\* batch, and a batch is begun only when the attempts and the delay of the
\* batch before it are over
DerivationOrder ==
    /\ [](/\ \A j, k \in 1..Len(origin) : j < k => NotAfter(origin[j], origin[k])
          /\ Len(origin) = Len(comments)
          /\ Flatten(batches) = SubSeq(comments, 1, Len(Flatten(batches)))
          /\ pc = "await_createReview" => request = batches[Len(batches)])
    /\ [][/\ (pc = "analyzeCode" /\ pc' # "exit1")
                => /\ Len(comments') >= Len(comments)
                   /\ SubSeq(comments', 1, Len(comments)) = comments
                   /\ LET new == SubSeq(comments', Len(comments) + 1, Len(comments'))
                      IN  new # <<>>
                            => /\ aiResponse.t = "arr"
                               /\ InCandidateOrder(new, aiResponse.v)
                               /\ \A k \in Len(comments) + 1..Len(comments') :
                                     origin'[k] = HunkOrder(files)[h]
          /\ pc # "analyzeCode" => comments' = comments
          /\ batches' # batches
                => /\ pc \in {"createReviewComment", "await_batch_delay"}
                   /\ SubSeq(batches', 1, Len(batches)) = batches
                   /\ Len(batches') = Len(batches) + 1
                   /\ batches = <<>> \/ i' > i]_vars

\* comments of two hunks, two candidates each, are under way in a second batch
DerivationOrderReached ==
    /\ pc = "await_createReview"
    /\ Len(batches) = 2
    /\ Len(comments) = 4
    /\ origin[1] # origin[4]
    /\ comments[1] # comments[2]

\* C13: at most one call or timer is pending at any time, and it is the
\* one main awaits: the model call of a hunk, a createReview attempt and a
\* delay are each started when nothing else is pending
OneOperationInFlight ==
    /\ Len(inflight) <= 1
    /\ pc \in AwaitPoints => inflight = <<pc>>
    /\ pc \notin AwaitPoints => inflight = <<>>

\* a retry delay is the one thing pending, after model calls and an attempt
RetryDelayInFlight ==
    /\ pc = "await_retry_delay"
    /\ inflight = <<"await_retry_delay">>
    /\ h >= 2

\* the path matches none of the include patterns
NotIncluded(path) == \A k \in 1..Len(include) : ~Minimatch(path, include[k])

\* C14: a file whose path matches no include pattern is not among the
\* files analyzeCode is given, no prompt or model call is made for a hunk of
\* it, and no comment or request carries its path
PathFiltering ==
    /\ \A k \in 1..Len(files) : ~NotIncluded(files[k].to)
    /\ pc \in {"await_model", "analyzeCode"} => ~NotIncluded(HunkFile.to)
    /\ \A k \in 1..Len(comments) : ~NotIncluded(comments[k].path)
    /\ \A k \in 1..Len(request) : ~NotIncluded(request[k].path)

\* a file of the diff was filtered out and comments of another are submitted
FilteredOutReached ==
    /\ pc = "await_createReview"
    /\ diff.state = "text"
    /\ \E k \in 1..Len(diff.files) : NotIncluded(diff.files[k].to)
    /\ Len(files) < Len(diff.files)

\* the number of hunks of the files that are not deleted
RECURSIVE LiveHunkCount(_)
LiveHunkCount(fs) ==
    IF fs = <<>> THEN 0
    ELSE (IF Head(fs).to = DevNull THEN 0 ELSE Len(Head(fs).chunks))
            + LiveHunkCount(Tail(fs))

\* analyzeCode has returned to main
Analysed == diff.state = "text" /\ (Delivering \/ pc = "done")

\* C15: no prompt or model call is made for a hunk of a deleted file and
\* no comment comes from one, and when analyzeCode returns every hunk of the
\* other files has been analysed
DeletedFileExclusion ==
    /\ pc \in {"await_model", "analyzeCode"} => HunkFile.to # DevNull
    /\ \A k \in 1..Len(origin) : files[origin[k][1]].to # DevNull
    /\ \A k \in 1..Len(comments) : comments[k].path # DevNull
    /\ Analysed => h = LiveHunkCount(files)

\* the hunk of a file that comes after a deleted file is analysed
DeletedFileSkipped ==
    /\ pc = "await_model"
    /\ h = 2
    /\ \E f \in 1..Len(files) : files[f].to = DevNull /\ f < HunkOrder(files)[h][1]

\* the event is neither "opened" nor "synchronize"
Unsupported == eventAction \notin {"opened", "synchronize"}

\* main has found the event unsupported or the diff null or empty
NothingToReview == (Unsupported /\ lastEvent = "getPRDetails") \/ diff = NoDiff

\* C16: an unsupported event or a diff that is null or empty ends the run
\* with a non-zero exit status
FatalConditionsExitNonZero == NothingToReview => pc = "exit1"

\* C16, as the code has it: an unsupported event or a diff that is null
\* or empty makes main return, the exit status untouched, with no model call,
\* no createReview request and nothing left pending
NothingToReviewReturns ==
    NothingToReview
        => /\ pc = "done"
           /\ h = 0
           /\ output = NoOutput
           /\ comments = <<>>
           /\ NothingDelivered
           /\ inflight = <<>>

\* main returned on a synchronize event whose diff is empty
NoDiffReached ==
    /\ pc = "done"
    /\ diff = NoDiff
    /\ eventAction = "synchronize"

\* C17: the run ends with a non-zero exit status only when the event
\* payload, the pull-request metadata or the diff could not be had
OnlyFatalExitsNonZero ==
    pc = "exit1" => lastEvent \in {"getPRDetails_failed", "diff_failed"}

\* the k-th batch of the partition of the comments
PartitionBatch(k) ==
    SubSeq(comments, (k - 1) * batchSize + 1,
           IF k * batchSize < Len(comments) THEN k * batchSize ELSE Len(comments))

\* C18: the request of every attempt carries the whole of one batch of the
\* partition, the batch the loop is at, and a retry carries what the first
\* attempt carried
BatchAtomicity ==
    /\ [](pc = "await_createReview"
            => /\ Len(batches) \in 1..CeilDiv(Len(comments), batchSize)
               /\ request = PartitionBatch(Len(batches))
               /\ i = (Len(batches) - 1) * batchSize)
    /\ [][(attempts' = attempts + 1 /\ batches' = batches)
            => (request' = request /\ pc' = "await_createReview")]_vars

\* a later batch of several comments is sent again
ResendReached ==
    /\ pc = "await_createReview"
    /\ attempts = 2
    /\ i > 0
    /\ Len(request) > 1

\* C19: a failed attempt that leaves attempts is followed by one retry
\* delay and then the next attempt on the same batch; the third failed
\* attempt is followed by no retry delay but by the one inter-batch delay,
\* after which the next batch is begun or the loop ends
RetryBackoff ==
    /\ [](batches # <<>> => retryWaits = attempts - 1)
    /\ [][/\ (pc = "await_createReview" /\ lastEvent' = "createReview_failed"
                /\ attempts < RetryBudget)
                => (pc' = "await_retry_delay" /\ retryWaits' = retryWaits)
          /\ pc = "await_retry_delay"
                => /\ retryWaits' = retryWaits + 1
                   /\ pc' = "await_createReview"
                   /\ attempts' = attempts + 1
                   /\ i' = i
                   /\ batchWaits' = batchWaits
          /\ (pc = "await_createReview" /\ lastEvent' = "createReview_failed"
                /\ attempts = RetryBudget)
                => (pc' = "await_batch_delay" /\ retryWaits' = retryWaits)
          /\ pc = "await_batch_delay"
                => /\ batchWaits' = batchWaits + 1
                   /\ \/ pc' = "done"
                      \/ /\ pc' = "await_createReview"
                         /\ attempts' = 1
                         /\ retryWaits' = 0
                         /\ i' = i + batchSize]_vars

\* a later batch was dropped after two retry delays
NoWaitAfterLastFailure ==
    /\ pc = "await_batch_delay"
    /\ lastEvent = "createReview_failed"
    /\ attempts = RetryBudget
    /\ retryWaits = RetryBudget - 1
    /\ batchWaits >= 1

\* C20: when the event payload cannot be read, or the pull-request
\* metadata or the diff cannot be fetched, the run ends with exit status 1,
\* no model call and no createReview request made
FetchFailureIsFatal ==
    lastEvent \in {"getPRDetails_failed", "diff_failed"}
        => /\ pc = "exit1"
           /\ h = 0
           /\ output = NoOutput
           /\ comments = <<>>
           /\ NothingDelivered
           /\ inflight = <<>>

\* compareCommits rejected and the run ended with exit status 1
FetchFailureReached ==
    /\ pc = "exit1"
    /\ lastEvent = "diff_failed"
    /\ eventAction = "synchronize"

\* C21: a hunk only appends to the accumulator: what earlier hunks
\* contributed stays as it is and where it is, a hunk whose call failed or
\* gave nothing leaves the accumulator as it was, and the model call of a
\* hunk starts with no output and no response of the hunk before
AccumulatorMonotonic ==
    /\ [](pc = "await_model" => (output = NoOutput /\ aiResponse = Undefined))
    /\ [][/\ Len(comments') >= Len(comments)
          /\ SubSeq(comments', 1, Len(comments)) = comments
          /\ Len(origin') >= Len(origin)
          /\ SubSeq(origin', 1, Len(origin)) = origin
          /\ (pc = "analyzeCode" /\ ~Truthy(aiResponse)) => comments' = comments
          /\ pc # "analyzeCode" => comments' = comments]_vars

\* the second hunk gave nothing and the comments of the first are kept
EmptyHunkAfterComments ==
    /\ pc = "await_model"
    /\ h = 3
    /\ comments # <<>>
    /\ \A k \in 1..Len(origin) : origin[k] = HunkOrder(files)[1]

\* hunks of up to three lines as the tokenizer numbers them
TokenizedHunks ==
    { ParseHunk(oldStart, newStart, kinds) :
        oldStart \in {1, 2, 10}, newStart \in {1, 2, 10},
        kinds \in UNION { [1..n -> {"add", "del", "normal"}] : n \in 2..3 } }

\* C22: no two lines of a hunk of the tokenizer have the same addressable
\* number
UniqueAddressable ==
    \A f \in 1..Len(diff.files) : \A c \in 1..Len(diff.files[f].chunks) :
        LET changes == diff.files[f].chunks[c].changes
        IN  diff.files[f].chunks[c] \in TokenizedHunks
              => \A a, b \in 1..Len(changes) :
                    a # b => Addressable(changes[a]) # Addressable(changes[b])

\* the console entries written by this step that report a dropped candidate
DropEntries ==
    LET written == SubSeq(log', Len(log) + 1, Len(log'))
    IN  { k \in 1..Len(written) : written[k].kind = "drop" }

\* C23: for every candidate of a hunk that does not become a comment a
\* console entry reporting the drop is written
EveryDropLogged ==
    [][(pc = "analyzeCode" /\ pc' # "exit1" /\ aiResponse.t = "arr")
        => Cardinality(DropEntries)
             = Len(aiResponse.v) - (Len(comments') - Len(comments))]_vars

\* C24: createReviewComment returns, and the createReview calls it makes
\* are at most 3 for every batch of the partition
DeliveryTerminates ==
    /\ <>(pc = "done")
    /\ [](submits <= 3 * CeilDiv(Len(comments), batchSize))

\* createReviewComment returned after 3 attempts on each of several batches
EveryAttemptUsed ==
    /\ pc = "done"
    /\ Len(batches) >= 3
    /\ submits = 3 * CeilDiv(Len(comments), batchSize)

\* C25: no comment is in two batches, every request is the batch the loop
\* is at, a batch is sent again only after a failed attempt, and once an
\* attempt succeeded or the batch was dropped the loop moves on to the
\* comments after it: so a comment is in at most one successful request, in
\* one when an attempt for its batch succeeded
AtMostOnceDelivery ==
    /\ [](/\ \A j, k \in 1..Len(Flatten(batches)) :
                j # k => Flatten(batches)[j] # Flatten(batches)[k]
          /\ pc = "await_createReview" => request = batches[Len(batches)]
          /\ pc = "await_retry_delay" => lastEvent = "createReview_failed")
    /\ [][/\ (pc = "await_createReview" /\ lastEvent' = "createReview_ok")
                => (pc' = "await_batch_delay" /\ submits' = submits)
          /\ pc = "await_batch_delay"
                => \/ pc' = "done" /\ submits' = submits
                   \/ /\ Len(batches') = Len(batches) + 1
                      /\ i' = i + batchSize
                      /\ request' = SubSeq(comments, i' + 1, i' + Len(request'))
          /\ submits' # submits
                => (lastEvent' \in {"retry_delay", "batch_delay"}
                      \/ pc = "createReviewComment")]_vars

\* a batch was delivered at its second attempt, after a dropped batch
DeliveredAfterDrop ==
    /\ pc = "await_batch_delay"
    /\ lastEvent = "createReview_ok"
    /\ attempts = 2
    /\ submits = 5
    /\ Len(batches) = 2

\* the hunk of a model call is before the hunk of another
Before(p, q) == p[1] < q[1] \/ (p[1] = q[1] /\ p[2] < q[2])

\* C26: the model calls are for hunks of files that are not deleted, in
\* file-then-hunk order and never twice for a hunk; whatever a call gave, the
\* hunk after it gets its call, so that every such hunk gets one; and a hunk
\* whose call raised adds no comment
OneModelCallPerHunk ==
    /\ [](/\ \A k \in 1..Len(prompted) :
                /\ files[prompted[k][1]].to # DevNull
                /\ prompted[k][2] \in 1..Len(files[prompted[k][1]].chunks)
          /\ \A j, k \in 1..Len(prompted) : j < k => Before(prompted[j], prompted[k])
          /\ Analysed => Len(prompted) = LiveHunkCount(files))
    /\ [][/\ (pc = "analyzeCode" /\ Len(prompted) < LiveHunkCount(files))
                => (pc' = "await_model" /\ Len(prompted') = Len(prompted) + 1)
          /\ (pc = "analyzeCode" /\ output = CallRejects)
                => comments' = comments]_vars

\* C27: no createReview call is made before the model call of every hunk
\* has been made and is over, nothing is analysed once delivery has begun,
\* and what createReviewComment has gone through when it returns is the whole
\* accumulator
AnalysisPrecedesDelivery ==
    /\ []((Delivering \/ submits > 0)
            => /\ Len(prompted) = LiveHunkCount(files)
               /\ h = Len(prompted)
               /\ output = NoOutput
               /\ pc \notin {"await_model", "analyzeCode"})
    /\ []((pc = "done" /\ submits > 0) => Flatten(batches) = comments)
    /\ [][submits > 0 => (comments' = comments /\ prompted' = prompted)]_vars

\* comments of three analysed hunks are being submitted
DeliveryAfterThreeHunks ==
    /\ pc = "await_createReview"
    /\ Len(prompted) = 3
    /\ Len(comments) >= 3

====
